---- MODULE Spec2Model ----
(***************************************************************************)
(* Model of disruption.py: ISCO radius, tidal disruption radius, NS-BH     *)
(* disruption decision, rest/gravitational mass conversion, BNS remnant    *)
(* mass and BNS decision.                                                  *)
(*                                                                         *)
(* Python floats are modelled as fixed-point numbers: the integer n stands *)
(* for n / Scale, and every arithmetic operation rounds its result down to *)
(* that grid (a root of a perfect power is exact, as it is in the code).   *)
(* A value of the program is a record [kind, v]:                           *)
(*   kind = "float"   a real number v / Scale                              *)
(*   kind = "complex" a Python complex (negative base under a fractional   *)
(*                    power), "nan" a numpy NaN (np.sqrt of a negative)    *)
(*   kind = "bool"    v = 1 for True, 0 for False                          *)
(*   kind = an exception name: the call raised it                          *)
(***************************************************************************)
EXTENDS Integers, FiniteSets, Sequences, TLC

VARIABLES fn, args, locals, ret

vars == <<fn, args, locals, ret>>

\* ---------------------------------------------------------------- bounds
\* Scale: the resolution of the arithmetic; RoundTripTol: the tolerance of the
\* round trip, in units of 1 / Scale
Scale == 1000
MaxBhMass == 6
MaxSpinStep == 4
RoundTripTol == 10

\* ------------------------------------------------------ program constants
\* mass_conversion_constant = 0.075 = K_NUM / K_DEN
K_NUM == 75
K_DEN == 1000
\* msun_si * g_si / c_si ** 2 / 1000 = 1.4766 km = KM_NUM / KM_DEN
KM_NUM == 14766
KM_DEN == 10000
\* ejecta_mass=0.05 = EJECTA_NUM / EJECTA_DEN
EJECTA_NUM == 5
EJECTA_DEN == 100
\* 1.2 * mtov, 1.2 = TOV_NUM / TOV_DEN
TOV_NUM == 12
TOV_DEN == 10

\* ------------------------------------------------------------ value kinds
Float(x) == [kind |-> "float", v |-> x]
Complex == [kind |-> "complex", v |-> 0]
NaN == [kind |-> "nan", v |-> 0]
Bool(b) == [kind |-> "bool", v |-> IF b THEN 1 ELSE 0]
Raise(e) == [kind |-> e, v |-> 0]
NoValue == [kind |-> "none", v |-> 0]

Exceptions == {"ZeroDivisionError", "UnboundLocalError", "TypeError"}
IsError(o) == o.kind \in Exceptions

\* ------------------------------------------------- fixed-point arithmetic
\* a * b
Mul(a, b) == (a * b) \div Scale
\* a / b, b # 0
Div(a, b) == (a * Scale) \div b

\* the largest m in lo..hi with m^2 <= n (bisection)
RECURSIVE ISqrt(_, _, _)
ISqrt(n, lo, hi) ==
    IF lo >= hi THEN lo
    ELSE LET mid == (lo + hi + 1) \div 2
         IN IF mid * mid <= n THEN ISqrt(n, mid, hi) ELSE ISqrt(n, lo, mid - 1)

\* the largest m in lo..hi with m^3 <= n (bisection)
RECURSIVE ICbrt(_, _, _)
ICbrt(n, lo, hi) ==
    IF lo >= hi THEN lo
    ELSE LET mid == (lo + hi + 1) \div 2
         IN IF mid * mid * mid <= n THEN ICbrt(n, mid, hi) ELSE ICbrt(n, lo, mid - 1)

\* x ** (1/2) and np.sqrt(x) for x >= 0
Sqrt(x) == ISqrt(x * Scale, 0, 46340)

\* x ** (1/3) for x >= 0; arguments above 2 are reduced by 8 = 2^3
RECURSIVE Cbrt(_)
Cbrt(x) ==
    IF x > 2 * Scale THEN 2 * Cbrt(x \div 8)
    ELSE ICbrt(x * Scale * Scale, 0, 1290)

\* ------------------------------------------------------- calculate_r_isco
OrbitSenses == {"co_rotating", "counter_rotating"}

a_tilde(dimensionless_spin, mass) == Mul(dimensionless_spin, mass)

\* a_tilde**2/mass**2
SpinSq(dimensionless_spin, mass) ==
    LET a == a_tilde(dimensionless_spin, mass)
    IN Div(Mul(a, a), Mul(mass, mass))

\* a_tilde/mass
SpinRatio(dimensionless_spin, mass) == Div(a_tilde(dimensionless_spin, mass), mass)

\* a base of one of the three cube roots of line 19 is negative
Z_1_IsComplex(dimensionless_spin, mass) ==
    \/ Scale - SpinSq(dimensionless_spin, mass) < 0
    \/ Scale + SpinRatio(dimensionless_spin, mass) < 0
    \/ Scale - SpinRatio(dimensionless_spin, mass) < 0

\* Z_1 without the factor (1-a_tilde**2/mass**2)**(1/3)
Z_1_missing_factor(dimensionless_spin, mass) ==
    Scale + Cbrt(Scale + SpinRatio(dimensionless_spin, mass))
          + Cbrt(Scale - SpinRatio(dimensionless_spin, mass))

Z_1(dimensionless_spin, mass) ==
    Scale + Mul(Cbrt(Scale - SpinSq(dimensionless_spin, mass)),
                Cbrt(Scale + SpinRatio(dimensionless_spin, mass))
                  + Cbrt(Scale - SpinRatio(dimensionless_spin, mass)))

\* Z_2 with Z_1 in place of Z_1**2
Z_2_no_square(dimensionless_spin, mass) ==
    Sqrt(3 * SpinSq(dimensionless_spin, mass) + Z_1(dimensionless_spin, mass))

Z_2(dimensionless_spin, mass) ==
    LET z1 == Z_1(dimensionless_spin, mass)
    IN Sqrt(3 * SpinSq(dimensionless_spin, mass) + Mul(z1, z1))

\* (3-Z_1)*(3+Z_1+2*Z_2)
Discriminant(dimensionless_spin, mass) ==
    LET z1 == Z_1(dimensionless_spin, mass)
        z2 == Z_2(dimensionless_spin, mass)
    IN Mul(3 * Scale - z1, 3 * Scale + z1 + 2 * z2)

\* the two branches of lines 22-25 with a final else taking the second one
r_isco_local_else(dimensionless_spin, mass, type_) ==
    IF mass = 0 THEN Raise("ZeroDivisionError")
    ELSE IF Z_1_IsComplex(dimensionless_spin, mass) THEN Complex
    ELSE IF Discriminant(dimensionless_spin, mass) < 0 THEN Complex
    ELSE LET z2 == Z_2(dimensionless_spin, mass)
             root == Sqrt(Discriminant(dimensionless_spin, mass))
         IN IF type_ = "co_rotating"
            THEN Float(Mul(mass, 3 * Scale + z2 - root))
            ELSE Float(Mul(mass, 3 * Scale + z2 + root))

\* the two branches of lines 22-25 with the signs of the root exchanged
r_isco_local_swapped(dimensionless_spin, mass, type_) ==
    IF mass = 0 THEN Raise("ZeroDivisionError")
    ELSE IF type_ \notin OrbitSenses THEN Raise("UnboundLocalError")
    ELSE IF Z_1_IsComplex(dimensionless_spin, mass) THEN Complex
    ELSE IF Discriminant(dimensionless_spin, mass) < 0 THEN Complex
    ELSE LET z2 == Z_2(dimensionless_spin, mass)
             root == Sqrt(Discriminant(dimensionless_spin, mass))
         IN IF type_ = "co_rotating"
            THEN Float(Mul(mass, 3 * Scale + z2 + root))
            ELSE Float(Mul(mass, 3 * Scale + z2 - root))

\* the local r_isco after the if/elif of lines 22-25 (geometric units)
r_isco_local(dimensionless_spin, mass, type_) ==
    IF mass = 0 THEN Raise("ZeroDivisionError")
    ELSE IF type_ \notin OrbitSenses THEN Raise("UnboundLocalError")
    ELSE IF Z_1_IsComplex(dimensionless_spin, mass) THEN Complex
    ELSE IF Discriminant(dimensionless_spin, mass) < 0 THEN Complex
    ELSE LET z2 == Z_2(dimensionless_spin, mass)
             root == Sqrt(Discriminant(dimensionless_spin, mass))
         IN IF type_ = "co_rotating"
            THEN Float(Mul(mass, 3 * Scale + z2 - root))
            ELSE Float(Mul(mass, 3 * Scale + z2 + root))

\* r_isco * msun_si * g_si / c_si ** 2 / 1000
ToKm(r) == (r * KM_NUM) \div KM_DEN

calculate_r_isco(dimensionless_spin, mass, type_) ==
    LET r_isco == r_isco_local(dimensionless_spin, mass, type_)
    IN IF r_isco.kind = "float" THEN Float(ToKm(r_isco.v)) ELSE r_isco

\* ------------------------------------------------- calculate_r_disruption
\* rns*(mns/mbh)**(1/3): the ratio inverted
calculate_r_disruption_inverted(mbh, mns, rns) ==
    IF mbh = 0 THEN Raise("ZeroDivisionError")
    ELSE IF Div(mns, mbh) < 0 THEN Complex
    ELSE Float(Mul(rns, Cbrt(Div(mns, mbh))))

\* the division and the power done as numpy does them on arrays: no exception,
\* NaN for a zero divisor or a negative base
calculate_r_disruption_nan(mbh, mns, rns) ==
    IF mns = 0 THEN NaN
    ELSE IF Div(mbh, mns) < 0 THEN NaN
    ELSE Float(Mul(rns, Cbrt(Div(mbh, mns))))

calculate_r_disruption(mbh, mns, rns) ==
    IF mns = 0 THEN Raise("ZeroDivisionError")
    ELSE IF Div(mbh, mns) < 0 THEN Complex
    ELSE Float(Mul(rns, Cbrt(Div(mbh, mns))))

\* a >= b on two values of the program
GreaterEqual(a, b) ==
    IF a.kind = "complex" \/ b.kind = "complex" THEN Raise("TypeError")
    ELSE IF a.kind = "nan" \/ b.kind = "nan" THEN Bool(FALSE)
    ELSE Bool(a.v >= b.v)

\* -------------------------------------------------------- nsbh_disruption
\* the ISCO computed with mass=mns
nsbh_disruption_ns_mass(mbh, mns, rns, dimensionless_spin, type) ==
    LET rdis == calculate_r_disruption(mbh, mns, rns)
        risco == calculate_r_isco(dimensionless_spin, mns, type)
    IN IF IsError(rdis) THEN rdis
       ELSE IF IsError(risco) THEN risco
       ELSE GreaterEqual(rdis, risco)

nsbh_disruption(mbh, mns, rns, dimensionless_spin, type) ==
    LET rdis == calculate_r_disruption(mbh, mns, rns)
        risco == calculate_r_isco(dimensionless_spin, mbh, type)
    IN IF IsError(rdis) THEN rdis
       ELSE IF IsError(risco) THEN risco
       ELSE GreaterEqual(rdis, risco)

\* ------------------------------------- rest_mass_from_gravitational_mass
rest_mass_from_gravitational_mass(gravitational_mass) ==
    Float(gravitational_mass
            + (K_NUM * Mul(gravitational_mass, gravitational_mass)) \div K_DEN)

\* ------------------------------------- gravitational_mass_from_rest_mass
\* 1 + 4. * mass_conversion_constant * rest_mass
Radicand(rest_mass) == Scale + (4 * K_NUM * rest_mass) \div K_DEN

\* the negative root of the quadratic
gravitational_mass_from_rest_mass_neg_root(rest_mass) ==
    IF Radicand(rest_mass) < 0 THEN NaN
    ELSE Float(((0 - Sqrt(Radicand(rest_mass)) - Scale) * K_DEN) \div (2 * K_NUM))

gravitational_mass_from_rest_mass(rest_mass) ==
    IF Radicand(rest_mass) < 0 THEN NaN
    ELSE Float(((Sqrt(Radicand(rest_mass)) - Scale) * K_DEN) \div (2 * K_NUM))

\* ----------------------------------------------- total_gravitational_mass
\* ejecta_mass=0.05 in the signatures of lines 78 and 93
ejecta_mass_default == (EJECTA_NUM * Scale) \div EJECTA_DEN

\* the value the parameter ejecta_mass is bound to in a call
BindEjecta(a) == IF a.ejecta_given THEN a.ejecta_mass ELSE ejecta_mass_default

total_rest_mass(gravitational_mass_1, gravitational_mass_2, ejecta_mass) ==
    rest_mass_from_gravitational_mass(gravitational_mass_1).v
        + rest_mass_from_gravitational_mass(gravitational_mass_2).v - ejecta_mass

\* the ejecta subtracted from the gravitational mass, after the conversion
total_gravitational_mass_late_ejecta(gravitational_mass_1, gravitational_mass_2, ejecta_mass) ==
    LET g == gravitational_mass_from_rest_mass(
                 total_rest_mass(gravitational_mass_1, gravitational_mass_2, 0))
    IN IF g.kind = "float" THEN Float(g.v - ejecta_mass) ELSE g

total_gravitational_mass(gravitational_mass_1, gravitational_mass_2, ejecta_mass) ==
    gravitational_mass_from_rest_mass(
        total_rest_mass(gravitational_mass_1, gravitational_mass_2, ejecta_mass))

\* --------------------------------------------------------- bns_disruption
\* 1.2 * mtov
Threshold(mtov) == (TOV_NUM * mtov) \div TOV_DEN

\* the remnant mass computed without passing ejecta_mass on
bns_disruption_default_ejecta(m1, m2, mtov, ejecta_mass) ==
    LET remnant_mass == total_gravitational_mass(m1, m2, ejecta_mass_default)
    IN GreaterEqual(remnant_mass, Float(Threshold(mtov)))

bns_disruption(m1, m2, mtov, ejecta_mass) ==
    LET remnant_mass == total_gravitational_mass(m1, m2, ejecta_mass)
    IN GreaterEqual(remnant_mass, Float(Threshold(mtov)))

\* ----------------------------------------------------------------- inputs
SpinSet == {(s * Scale) \div MaxSpinStep : s \in 0..MaxSpinStep} \cup {(3 * Scale) \div 2}
BhMassSet == {m * Scale : m \in -1..MaxBhMass}
NsMassSet == {0, Scale, (14 * Scale) \div 10, 2 * Scale}
\* the ISCO radius in km of a non-spinning black hole of one solar mass
RIscoUnit == calculate_r_isco(0, Scale, "co_rotating").v
RnsSet == {RIscoUnit, 10 * Scale, 12 * Scale}
TypeSet == OrbitSenses \cup {"sideways"}
\* gravitational masses 0, 0.01, ..., 3.0 for the conversions
GravMassSet == {(g * Scale) \div 100 : g \in 0..300}
\* rest masses -4.0, -3.5, ..., 4.0
RestMassSet == {(r * Scale) \div 2 : r \in -8..8}
BnsMassSet == {(12 * Scale) \div 10, (13 * Scale) \div 10, 2 * Scale}
EjectaSet == {0, ejecta_mass_default, Scale \div 10, 10 * Scale}
\* the smallest mtov whose threshold 1.2 * mtov reaches the remnant mass r
MtovAt(r) == (TOV_DEN * r + TOV_NUM - 1) \div TOV_NUM
MtovSet == {2 * Scale, (22 * Scale) \div 10}
             \cup {MtovAt(total_gravitational_mass(m1, m2, ejecta_mass_default).v) :
                     m1 \in BnsMassSet, m2 \in BnsMassSet}

\* ---------------------------------------------------------------- actions
\* a call is pending: the function and its arguments are chosen, nothing has run
Pending(f) == fn = f /\ ret = NoValue

InitCall(f, A) ==
    /\ fn = f
    /\ args \in A
    /\ locals = <<>>
    /\ ret = NoValue

Init ==
    \/ InitCall("calculate_r_isco",
                [dimensionless_spin : SpinSet, mass : BhMassSet, type_ : TypeSet])
    \/ InitCall("calculate_r_disruption",
                [mbh : BhMassSet, mns : NsMassSet, rns : RnsSet])
    \/ InitCall("nsbh_disruption",
                [mbh : BhMassSet, mns : NsMassSet, rns : RnsSet,
                 dimensionless_spin : SpinSet, type : TypeSet])
    \/ InitCall("rest_mass_from_gravitational_mass", [gravitational_mass : GravMassSet])
    \/ InitCall("gravitational_mass_from_rest_mass", [rest_mass : RestMassSet])
    \/ InitCall("total_gravitational_mass",
                [gravitational_mass_1 : BnsMassSet, gravitational_mass_2 : BnsMassSet,
                 ejecta_given : BOOLEAN, ejecta_mass : EjectaSet])
    \/ InitCall("bns_disruption",
                [m1 : BnsMassSet, m2 : BnsMassSet, mtov : MtovSet,
                 ejecta_given : BOOLEAN, ejecta_mass : EjectaSet])

Call_calculate_r_isco ==
    /\ Pending("calculate_r_isco")
    /\ locals' = [r_isco |-> r_isco_local(args.dimensionless_spin, args.mass, args.type_)]
    /\ ret' = calculate_r_isco(args.dimensionless_spin, args.mass, args.type_)
    /\ UNCHANGED <<fn, args>>

Call_calculate_r_disruption ==
    /\ Pending("calculate_r_disruption")
    /\ ret' = calculate_r_disruption(args.mbh, args.mns, args.rns)
    /\ UNCHANGED <<fn, args, locals>>

Call_nsbh_disruption ==
    /\ Pending("nsbh_disruption")
    /\ ret' = nsbh_disruption(args.mbh, args.mns, args.rns,
                              args.dimensionless_spin, args.type)
    /\ UNCHANGED <<fn, args, locals>>

Call_rest_mass_from_gravitational_mass ==
    /\ Pending("rest_mass_from_gravitational_mass")
    /\ ret' = rest_mass_from_gravitational_mass(args.gravitational_mass)
    /\ UNCHANGED <<fn, args, locals>>

Call_gravitational_mass_from_rest_mass ==
    /\ Pending("gravitational_mass_from_rest_mass")
    /\ ret' = gravitational_mass_from_rest_mass(args.rest_mass)
    /\ UNCHANGED <<fn, args, locals>>

\* the round trip: the rest mass just returned is converted back
RoundTrip ==
    /\ fn = "rest_mass_from_gravitational_mass"
    /\ ret.kind = "float"
    /\ fn' = "gravitational_mass_from_rest_mass"
    /\ args' = [rest_mass |-> ret.v]
    /\ locals' = [x |-> args.gravitational_mass]
    /\ ret' = gravitational_mass_from_rest_mass(ret.v)

Call_total_gravitational_mass ==
    /\ Pending("total_gravitational_mass")
    /\ locals' = [total_rest_mass |->
                    total_rest_mass(args.gravitational_mass_1, args.gravitational_mass_2,
                                    BindEjecta(args))]
    /\ ret' = total_gravitational_mass(args.gravitational_mass_1,
                                       args.gravitational_mass_2, BindEjecta(args))
    /\ UNCHANGED <<fn, args>>

Call_bns_disruption ==
    /\ Pending("bns_disruption")
    /\ locals' = [remnant_mass |->
                    total_gravitational_mass(args.m1, args.m2, BindEjecta(args))]
    /\ ret' = bns_disruption(args.m1, args.m2, args.mtov, BindEjecta(args))
    /\ UNCHANGED <<fn, args>>

Next ==
    \/ Call_calculate_r_isco
    \/ Call_calculate_r_disruption
    \/ Call_nsbh_disruption
    \/ Call_rest_mass_from_gravitational_mass
    \/ Call_gravitational_mass_from_rest_mass
    \/ RoundTrip
    \/ Call_total_gravitational_mass
    \/ Call_bns_disruption

Spec == Init /\ [][Next]_vars

\* ----------------------------------------------------------------- claims
Returned == ret.kind # "none"
Positive(x) == x > 0
PhysicalSpin(s) == 0 <= s /\ s <= Scale
OtherSense(t) == IF t = "co_rotating" THEN "counter_rotating" ELSE "co_rotating"

\* C1: a call of calculate_r_isco whose orbit sense is neither 'co_rotating'
\* nor 'counter_rotating' ends in an exception for every spin and mass, and so
\* does a call of nsbh_disruption with such an orbit sense; neither returns a
\* value.
C1_InvalidSenseRaises ==
    /\ (fn = "calculate_r_isco" /\ Returned /\ args.type_ \notin OrbitSenses)
          => IsError(ret)
    /\ (fn = "nsbh_disruption" /\ Returned /\ args.type \notin OrbitSenses)
          => IsError(ret)

C1_Witness ==
    /\ fn = "nsbh_disruption"
    /\ args.type = "sideways"
    /\ Positive(args.mbh) /\ Positive(args.mns)
    /\ ret = Raise("UnboundLocalError")

\* C2: converting a gravitational mass x >= 0 to a rest mass and back returns
\* x within the rounding tolerance, as a non-negative number (the positive
\* root).
C2_RoundTrip ==
    (fn = "gravitational_mass_from_rest_mass" /\ "x" \in DOMAIN locals /\ locals.x >= 0)
        => /\ ret.kind = "float"
           /\ ret.v >= 0
           /\ ret.v - locals.x <= RoundTripTol
           /\ locals.x - ret.v <= RoundTripTol

C2_Witness ==
    /\ fn = "gravitational_mass_from_rest_mass"
    /\ "x" \in DOMAIN locals
    /\ locals.x = (14 * Scale) \div 10
    /\ args.rest_mass > locals.x
    /\ ret.kind = "float"

\* C3: for positive masses and radius, a spin in [0, 1] and a recognised orbit
\* sense, nsbh_disruption returns True exactly when the disruption radius is
\* at least the ISCO radius in km of the black-hole mass, equal radii included.
C3_NsbhIsComparison ==
    (/\ fn = "nsbh_disruption" /\ Returned
     /\ Positive(args.mbh) /\ Positive(args.mns) /\ Positive(args.rns)
     /\ PhysicalSpin(args.dimensionless_spin) /\ args.type \in OrbitSenses)
        => LET rdis == calculate_r_disruption(args.mbh, args.mns, args.rns)
               risco == calculate_r_isco(args.dimensionless_spin, args.mbh, args.type)
           IN /\ rdis.kind = "float" /\ risco.kind = "float"
              /\ ret.kind = "bool"
              /\ (ret.v = 1) <=> (rdis.v >= risco.v)

C3_Witness ==
    /\ fn = "nsbh_disruption" /\ Returned
    /\ Positive(args.mbh) /\ Positive(args.mns) /\ Positive(args.rns)
    /\ args.type \in OrbitSenses
    /\ calculate_r_disruption(args.mbh, args.mns, args.rns)
         = calculate_r_isco(args.dimensionless_spin, args.mbh, args.type)
    /\ ret = Bool(TRUE)

\* C4: bns_disruption returns True exactly when the remnant mass computed by
\* total_gravitational_mass from m1, m2 and the caller's ejecta_mass (0.05
\* when omitted) is a number at least 1.2 * mtov, equality included.
C4_BnsIsComparison ==
    (fn = "bns_disruption" /\ Returned)
        => LET ejecta == IF args.ejecta_given THEN args.ejecta_mass
                         ELSE (EJECTA_NUM * Scale) \div EJECTA_DEN
               remnant == total_gravitational_mass(args.m1, args.m2, ejecta)
           IN /\ ret.kind = "bool"
              /\ (ret.v = 1) <=> (/\ remnant.kind = "float"
                                  /\ remnant.v >= (TOV_NUM * args.mtov) \div TOV_DEN)

C4_Witness ==
    /\ fn = "bns_disruption" /\ Returned
    /\ locals.remnant_mass = Float((TOV_NUM * args.mtov) \div TOV_DEN)
    /\ ret = Bool(TRUE)

\* C5: total_gravitational_mass returns the gravitational mass of the rest
\* mass rest(m1) + rest(m2) - ejecta_mass, where ejecta_mass is 0.05 when the
\* caller omits it.
C5_TotalIsComposition ==
    (fn = "total_gravitational_mass" /\ Returned)
        => LET ejecta == IF args.ejecta_given THEN args.ejecta_mass
                         ELSE (EJECTA_NUM * Scale) \div EJECTA_DEN
               rest_1 == rest_mass_from_gravitational_mass(args.gravitational_mass_1)
               rest_2 == rest_mass_from_gravitational_mass(args.gravitational_mass_2)
           IN /\ locals.total_rest_mass = rest_1.v + rest_2.v - ejecta
              /\ ret = gravitational_mass_from_rest_mass(rest_1.v + rest_2.v - ejecta)

C5_Witness ==
    /\ fn = "total_gravitational_mass" /\ Returned
    /\ ~args.ejecta_given
    /\ locals.total_rest_mass
         < rest_mass_from_gravitational_mass(args.gravitational_mass_1).v
             + rest_mass_from_gravitational_mass(args.gravitational_mass_2).v
    /\ ret.kind = "float"

\* C6: at spin 0 and a positive mass the local r_isco is 6 * mass for either
\* orbit sense, and the two orbit senses return the same radius.
C6_Schwarzschild ==
    (/\ fn = "calculate_r_isco" /\ Returned
     /\ args.dimensionless_spin = 0 /\ Positive(args.mass)
     /\ args.type_ \in OrbitSenses)
        => /\ locals.r_isco = Float(6 * args.mass)
           /\ ret = Float((6 * args.mass * KM_NUM) \div KM_DEN)
           /\ ret = calculate_r_isco(0, args.mass, OtherSense(args.type_))

C6_Witness ==
    /\ fn = "calculate_r_isco" /\ Returned
    /\ args.dimensionless_spin = 0 /\ args.mass = 5 * Scale
    /\ args.type_ = "counter_rotating"
    /\ locals.r_isco = Float(30 * Scale)

\* C7: at spin 1 and a positive mass the local r_isco is 1 * mass for
\* 'co_rotating' and 9 * mass for 'counter_rotating'.
C7_Extremal ==
    (/\ fn = "calculate_r_isco" /\ Returned
     /\ args.dimensionless_spin = Scale /\ Positive(args.mass))
        => /\ args.type_ = "co_rotating" => locals.r_isco = Float(args.mass)
           /\ args.type_ = "counter_rotating" => locals.r_isco = Float(9 * args.mass)

C7_Witness ==
    /\ fn = "calculate_r_isco" /\ Returned
    /\ args.dimensionless_spin = Scale /\ args.mass = 3 * Scale
    /\ args.type_ = "counter_rotating"
    /\ locals.r_isco = Float(27 * Scale)

\* C8: with positive masses and radius, calculate_r_disruption returns a
\* strictly larger radius for every larger mbh and a strictly smaller radius
\* for every larger mns, the other two arguments unchanged.
C8_Monotone ==
    (/\ fn = "calculate_r_disruption" /\ Returned
     /\ Positive(args.mbh) /\ Positive(args.mns) /\ Positive(args.rns))
        => /\ ret.kind = "float"
           /\ \A mbh2 \in BhMassSet :
                 mbh2 > args.mbh
                   => calculate_r_disruption(mbh2, args.mns, args.rns).v > ret.v
           /\ \A mns2 \in NsMassSet :
                 mns2 > args.mns
                   => calculate_r_disruption(args.mbh, mns2, args.rns).v < ret.v

C8_Witness ==
    /\ fn = "calculate_r_disruption" /\ Returned
    /\ args.mbh = 3 * Scale /\ args.mns = (14 * Scale) \div 10
    /\ ret.v > args.rns
    /\ ret.v < calculate_r_disruption(4 * Scale, args.mns, args.rns).v
    /\ ret.v > calculate_r_disruption(args.mbh, 2 * Scale, args.rns).v

C10_CoBelowCounter ==
    /\ (/\ fn = "calculate_r_isco" /\ Returned
        /\ PhysicalSpin(args.dimensionless_spin) /\ Positive(args.mass)
        /\ args.type_ \in OrbitSenses)
          => LET other == calculate_r_isco(args.dimensionless_spin, args.mass,
                                           OtherSense(args.type_))
             IN /\ ret.kind = "float" /\ other.kind = "float"
                /\ args.type_ = "co_rotating" => ret.v <= other.v
                /\ args.type_ = "counter_rotating" => other.v <= ret.v
    /\ (/\ fn = "nsbh_disruption" /\ Returned
        /\ PhysicalSpin(args.dimensionless_spin) /\ Positive(args.mbh)
        /\ args.type = "counter_rotating" /\ ret = Bool(TRUE))
          => nsbh_disruption(args.mbh, args.mns, args.rns,
                             args.dimensionless_spin, "co_rotating") = Bool(TRUE)

C10_Witness ==
    /\ fn = "nsbh_disruption"
    /\ args.dimensionless_spin = Scale \div 2
    /\ args.type = "counter_rotating"
    /\ ret = Bool(TRUE)
    /\ calculate_r_isco(args.dimensionless_spin, args.mbh, "co_rotating").v
         < calculate_r_isco(args.dimensionless_spin, args.mbh, "counter_rotating").v

====
